---- MODULE Spec2Model ----
(***************************************************************************)
(* The EOQ / TAC calculators of Functions_and_Modules_Introduction.ipynb.  *)
(*                                                                         *)
(* Compute_EOQ and Compute_EOQ_TAC are Python functions over Python ints,  *)
(* Python floats and numpy float64 scalars.  Their arithmetic is modelled  *)
(* as the interpreter performs it: ints are exact, every float operation   *)
(* is an IEEE-754 binary64 operation rounded to nearest-even, a division   *)
(* by zero raises ZeroDivisionError unless a numpy scalar takes part (then *)
(* it yields inf or nan), and np.sqrt of a negative number yields nan.     *)
(* Natural numbers wider than the model checker's integers are sequences   *)
(* of limbs, least significant first.                                      *)
(***************************************************************************)
EXTENDS Integers, Sequences, FiniteSets, TLC

(***************************************************************************)
(* Natural numbers as limb sequences (radix Base, no leading zero limb).   *)
(***************************************************************************)
LimbBits == 15
Base == 2 ^ LimbBits

MaxOf(a, b) == IF a >= b THEN a ELSE b
MinOf(a, b) == IF a <= b THEN a ELSE b

Pow2(k) == 2 ^ k

Limb(x, i) == IF 1 <= i /\ i <= Len(x) THEN x[i] ELSE 0

\* x without its leading zero limbs
Norm(x) == SubSeq(x, 1, Cardinality({i \in 1..Len(x) : \E j \in i..Len(x) : x[j] # 0}))

\* the natural number n < Base^3
FromInt(n) == Norm(<<n % Base, (n \div Base) % Base, n \div (Base * Base)>>)

\* the carry into limb i when the limb sums s are added up: a limb below i
\* overflows and every limb between it and i is full
CarryIn(s, i) ==
  IF \E j \in 1..(i - 1) : s[j] >= Base /\ \A l \in (j + 1)..(i - 1) : s[l] = Base - 1
  THEN 1 ELSE 0

SumLimbs(s, n) ==
  Norm([i \in 1..(n + 1) |->
          IF i <= n THEN (s[i] + CarryIn(s, i)) % Base ELSE CarryIn(s, i)])

AddN(x, y) ==
  SumLimbs([i \in 1..MaxOf(Len(x), Len(y)) |-> Limb(x, i) + Limb(y, i)],
           MaxOf(Len(x), Len(y)))

\* the borrow from limb i when the limb differences d are taken: a limb
\* below i is negative and every limb between it and i is zero
BorrowIn(d, i) ==
  IF \E j \in 1..(i - 1) : d[j] < 0 /\ \A l \in (j + 1)..(i - 1) : d[l] = 0
  THEN 1 ELSE 0

DiffLimbs(d) == Norm([i \in 1..Len(d) |-> (d[i] - BorrowIn(d, i) + Base) % Base])

\* x - y for x >= y
SubN(x, y) == DiffLimbs([i \in 1..Len(x) |-> x[i] - Limb(y, i)])

\* the highest limb in which x and y of equal length differ
TopDiff(x, y) ==
  CHOOSE i \in 1..Len(x) : x[i] # y[i] /\ \A j \in (i + 1)..Len(x) : x[j] = y[j]

\* -1, 0, 1 as x < y, x = y, x > y
CmpN(x, y) ==
  IF Len(x) < Len(y) THEN -1
  ELSE IF Len(x) > Len(y) THEN 1
  ELSE IF x = y THEN 0
  ELSE IF x[TopDiff(x, y)] < y[TopDiff(x, y)] THEN -1
  ELSE 1

\* x * k for 0 <= k <= Base: the low halves of the limb products plus their
\* high halves one limb up
MulSmall(x, k) ==
  IF k = 0 THEN << >>
  ELSE AddN([i \in 1..Len(x) |-> (x[i] * k) % Base],
            <<0>> \o [i \in 1..Len(x) |-> (x[i] * k) \div Base])

ShiftLimbs(x, n) == IF x = << >> THEN x ELSE [i \in 1..n |-> 0] \o x

\* x * y, splitting y in halves
RECURSIVE MulN(_, _)
MulN(x, y) ==
  IF x = << >> \/ y = << >> THEN << >>
  ELSE IF Len(y) = 1 THEN MulSmall(x, y[1])
  ELSE AddN(MulN(x, SubSeq(y, 1, Len(y) \div 2)),
            ShiftLimbs(MulN(x, SubSeq(y, Len(y) \div 2 + 1, Len(y))), Len(y) \div 2))

\* x * 2^s and floor(x / 2^s)
ShiftL(x, s) == ShiftLimbs(MulSmall(x, Pow2(s % LimbBits)), s \div LimbBits)

ShiftRLimbs(x, w, b) ==
  Norm([i \in 1..(Len(x) - w) |->
          (x[i + w] \div Pow2(b)) + (Limb(x, i + w + 1) % Pow2(b)) * Pow2(LimbBits - b)])

ShiftR(x, s) ==
  IF s \div LimbBits >= Len(x) THEN << >>
  ELSE ShiftRLimbs(x, s \div LimbBits, s % LimbBits)

\* the number of bits of the limb n
BitLenSmall(n) == Cardinality({k \in 0..(LimbBits - 1) : Pow2(k) <= n})

BitLen(x) ==
  IF x = << >> THEN 0 ELSE LimbBits * (Len(x) - 1) + BitLenSmall(x[Len(x)])

\* bit i of x, bit 0 the least significant
TestBit(x, i) == (Limb(x, i \div LimbBits + 1) \div Pow2(i % LimbBits)) % 2

IsOdd(x) == x # << >> /\ x[1] % 2 = 1

\* the s low bits of x are all zero
LowZero(x, s) == ShiftL(ShiftR(x, s), s) = x

\* the quotient limb t, t * d <= r < (t + 1) * d, for r < Base * d and a
\* divisor d whose top limb has its top bit set: it is the estimate from
\* the leading limbs or one of the two values below it
QuotLimb(r, d) ==
  LET est == MinOf(Base - 1,
                   (Limb(r, Len(d) + 1) * Base + Limb(r, Len(d))) \div d[Len(d)])
  IN  CHOOSE t \in MaxOf(0, est - 2)..est :
        CmpN(MulSmall(d, t), r) <= 0 /\ CmpN(MulSmall(d, t + 1), r) > 0

\* long division of n by d, one quotient limb per step from the top limb
\* st.i down: st.r is the remainder so far, r2 the same with the next limb
\* of n brought down, t its quotient limb
DivStep(d, st, r2, t) ==
  [i |-> st.i - 1, q |-> <<t>> \o st.q, r |-> SubN(r2, MulSmall(d, t))]

DivLimb(d, st, r2) == DivStep(d, st, r2, QuotLimb(r2, d))

RECURSIVE DivModGo(_, _, _)
DivModGo(n, d, st) ==
  IF st.i = 0 THEN st
  ELSE DivModGo(n, d, DivLimb(d, st, Norm(<<n[st.i]>> \o st.r)))

DivResult(st, j) == [q |-> Norm(st.q), r |-> ShiftR(st.r, j)]

\* n and d scaled by 2^j, which leaves the quotient and scales the remainder
DivScaled(n, d, j) ==
  DivResult(DivModGo(ShiftL(n, j), ShiftL(d, j),
                     [i |-> Len(ShiftL(n, j)), q |-> << >>, r |-> << >>]), j)

\* [q |-> floor(n / d), r |-> n - q * d] for d > 0
DivModN(n, d) == DivScaled(n, d, LimbBits - BitLenSmall(d[Len(d)]))

\* floor of the square root of n, one root bit per step (the digit-by-digit
\* method): st.k is even, bit = 2^st.k is the weight of the bit tried, st.r
\* what is left of n, st.q the root so far, t what taking the bit costs
SqrtTake(st, bit, t) ==
  IF CmpN(st.r, t) >= 0
  THEN [q |-> AddN(ShiftR(st.q, 1), bit), r |-> SubN(st.r, t), k |-> st.k - 2]
  ELSE [q |-> ShiftR(st.q, 1), r |-> st.r, k |-> st.k - 2]

SqrtStep(st, bit) == SqrtTake(st, bit, AddN(st.q, bit))

\* up to c steps
RECURSIVE SqrtBits(_, _)
SqrtBits(st, c) ==
  IF c = 0 \/ st.k < 0 THEN st
  ELSE SqrtBits(SqrtStep(st, ShiftL(<<1>>, st.k)), c - 1)

RECURSIVE ISqrtGo(_)
ISqrtGo(st) == IF st.k < 0 THEN st ELSE ISqrtGo(SqrtBits(st, LimbBits \div 2))

SqrtResult(st) == [q |-> st.q, r |-> st.r]

\* [q |-> floor(sqrt(n)), r |-> n - q^2]
ISqrtN(n) ==
  IF n = << >> THEN [q |-> << >>, r |-> << >>]
  ELSE SqrtResult(ISqrtGo([q |-> << >>, r |-> n, k |-> 2 * ((BitLen(n) - 1) \div 2)]))

\* the natural number written with the decimal digits ds, read four
\* digits at a time: st.i is the next digit, st.n the number read so far
RECURSIVE FromDigitsGo(_, _)
FromDigitsGo(ds, st) ==
  IF st.i > Len(ds) THEN st.n
  ELSE IF st.i + 3 <= Len(ds)
  THEN FromDigitsGo(ds,
         [i |-> st.i + 4,
          n |-> AddN(MulSmall(st.n, 10000),
                     FromInt(1000 * ds[st.i] + 100 * ds[st.i + 1]
                             + 10 * ds[st.i + 2] + ds[st.i + 3]))])
  ELSE FromDigitsGo(ds, [i |-> st.i + 1,
                         n |-> AddN(MulSmall(st.n, 10), FromInt(ds[st.i]))])

FromDigits(ds) == FromDigitsGo(ds, [i |-> 1, n |-> << >>])

\* 10^k
RECURSIVE Pow10N(_)
Pow10N(k) == IF k < 4 THEN FromInt(10 ^ k) ELSE MulSmall(Pow10N(k - 4), 10000)

(***************************************************************************)
(* Python numbers.  A value is a record: ty is the Python type ("int",     *)
(* "float", or "float64" for a numpy scalar), cls is "fin", "inf" or "nan",*)
(* s the sign bit, and a finite value is (-1)^s * m * 2^e.  An int has     *)
(* e = 0; a nonzero float has Precision significant bits in m, fewer only  *)
(* at the least exponent EMin (a subnormal).  A raised exception is a      *)
(* value of cls "exc" whose ty names it; it propagates through every       *)
(* operation, as an exception abandons the evaluation of an expression.    *)
(***************************************************************************)
Precision == 53
EMin == -1074
EMax == 971

Val(ty, cls, s, m, e) == [ty |-> ty, cls |-> cls, s |-> s, m |-> m, e |-> e]

Zero(ty, s) == Val(ty, "fin", s, << >>, 0)
Inf(ty, s)  == Val(ty, "inf", s, << >>, 0)
NaN(ty)     == Val(ty, "nan", 0, << >>, 0)
ZeroDivisionError == Val("ZeroDivisionError", "exc", 0, << >>, 0)

IsExc(v)    == v.cls = "exc"
IsNaN(v)    == v.cls = "nan"
IsFinite(v) == v.cls = "fin"
IsZero(v)   == v.cls = "fin" /\ v.m = << >>

\* the Python int n
PyInt(n) == Val("int", "fin", IF n < 0 THEN 1 ELSE 0, FromInt(IF n < 0 THEN -n ELSE n), 0)

\* a finite float from its parts: beyond the largest exponent it is inf
Pack(ty, s, m, e) == IF e > EMax THEN Inf(ty, s) ELSE Val(ty, "fin", s, m, e)

\* the rounded significand q, renormalised when rounding carried into a
\* new bit
RoundCarry(ty, s, q, e) ==
  IF q = << >> THEN Zero(ty, s)
  ELSE IF BitLen(q) > Precision THEN Pack(ty, s, ShiftR(q, 1), e + 1)
  ELSE Pack(ty, s, q, e)

\* round to nearest, ties to even: q is the kept part, half the first
\* dropped bit, rest whether anything lies below it
RoundIncr(q, half, rest) ==
  IF half /\ (rest \/ IsOdd(q)) THEN AddN(q, <<1>>) ELSE q

\* mant * 2^exp rounded with the low sh bits of mant dropped
RoundShift(ty, s, mant, exp, sticky, sh) ==
  IF sh <= 0 THEN Val(ty, "fin", s, ShiftL(mant, -sh), exp + sh)
  ELSE RoundCarry(ty, s,
                  RoundIncr(ShiftR(mant, sh), TestBit(mant, sh - 1) = 1,
                            sticky \/ ~LowZero(mant, sh - 1)),
                  exp + sh)

\* the binary64 nearest to (-1)^s * mant * 2^exp, ties to even; sticky says
\* that the exact value is slightly above mant * 2^exp (bits were dropped)
RoundToFloat(ty, s, mant, exp, sticky) ==
  IF mant = << >> THEN Zero(ty, s)
  ELSE RoundShift(ty, s, mant, exp, sticky,
                  MaxOf(BitLen(mant) - Precision, EMin - exp))

DivRoundQ(ty, s, dm, exp) == RoundToFloat(ty, s, dm.q, exp, dm.r # << >>)

DivRoundSh(ty, s, n, d, exp, sh) ==
  DivRoundQ(ty, s, DivModN(ShiftL(n, sh), d), exp - sh)

\* the binary64 nearest to (-1)^s * (n / d) * 2^exp, for d > 0
DivRound(ty, s, n, d, exp) ==
  DivRoundSh(ty, s, n, d, exp, MaxOf(0, Precision + 2 + BitLen(d) - BitLen(n)))

\* an operand of a float operation: an int is converted, a float is itself
AsFloat(v) == IF v.ty = "int" THEN RoundToFloat("float", v.s, v.m, 0, FALSE) ELSE v

SetTy(v, ty) == [v EXCEPT !.ty = ty]

\* float(...) and np.float64(...) of a number
PyFloat(v) == SetTy(AsFloat(v), "float")
NpFloat64(v) == SetTy(AsFloat(v), "float64")

\* the type of the result of a float operation: numpy's scalar wins
ResTy(x, y) == IF x.ty = "float64" \/ y.ty = "float64" THEN "float64" ELSE "float"

SignXor(x, y) == (x.s + y.s) % 2

\* a float literal: the decimal digits ds with the last `scale` of them
\* after the point
PyFloatLit(ds, scale) == DivRound("float", 0, FromDigits(ds), Pow10N(scale), 0)

\* a * b on floats
FloatMul(a, b, ty) ==
  IF IsNaN(a) \/ IsNaN(b) THEN NaN(ty)
  ELSE IF a.cls = "inf" \/ b.cls = "inf"
  THEN (IF IsZero(a) \/ IsZero(b) THEN NaN(ty) ELSE Inf(ty, SignXor(a, b)))
  ELSE IF IsZero(a) \/ IsZero(b) THEN Zero(ty, SignXor(a, b))
  ELSE RoundToFloat(ty, SignXor(a, b), MulN(a.m, b.m), a.e + b.e, FALSE)

\* x * y
PyMul(x, y) ==
  IF IsExc(x) THEN x
  ELSE IF IsExc(y) THEN y
  ELSE IF x.ty = "int" /\ y.ty = "int"
  THEN (IF x.m = << >> \/ y.m = << >> THEN PyInt(0)
        ELSE Val("int", "fin", SignXor(x, y), MulN(x.m, y.m), 0))
  ELSE FloatMul(AsFloat(x), AsFloat(y), ResTy(x, y))

\* a / b on floats as numpy divides: a zero divisor gives inf, or nan for
\* 0 / 0 (with a RuntimeWarning, which is no exception)
FloatDiv(a, b, ty) ==
  IF IsNaN(a) \/ IsNaN(b) THEN NaN(ty)
  ELSE IF a.cls = "inf"
  THEN (IF b.cls = "inf" THEN NaN(ty) ELSE Inf(ty, SignXor(a, b)))
  ELSE IF b.cls = "inf" THEN Zero(ty, SignXor(a, b))
  ELSE IF IsZero(b)
  THEN (IF IsZero(a) THEN NaN(ty) ELSE Inf(ty, SignXor(a, b)))
  ELSE IF IsZero(a) THEN Zero(ty, SignXor(a, b))
  ELSE DivRound(ty, SignXor(a, b), a.m, b.m, a.e - b.e)

\* the floor of n / d for ints, from the quotient and remainder of the
\* magnitudes
FloorQuot(s, dm) ==
  IF s = 0 THEN Val("int", "fin", 0, dm.q, 0)
  ELSE IF dm.r = << >> THEN Val("int", "fin", IF dm.q = << >> THEN 0 ELSE 1, dm.q, 0)
  ELSE Val("int", "fin", 1, AddN(dm.q, <<1>>), 0)

\* a slip: x / y as Python 2 divides, two ints giving the floor of the
\* quotient
PyTrueDiv_py2(x, y) ==
  IF IsExc(x) THEN x
  ELSE IF IsExc(y) THEN y
  ELSE IF IsZero(y) /\ x.ty # "float64" /\ y.ty # "float64" THEN ZeroDivisionError
  ELSE IF x.ty = "int" /\ y.ty = "int"
  THEN FloorQuot(SignXor(x, y), DivModN(x.m, y.m))
  ELSE FloatDiv(AsFloat(x), AsFloat(y), ResTy(x, y))

\* x / y (true division).  Python raises ZeroDivisionError for a zero
\* divisor; when a numpy float64 takes part numpy divides instead
PyTrueDiv(x, y) ==
  IF IsExc(x) THEN x
  ELSE IF IsExc(y) THEN y
  ELSE IF IsZero(y) /\ x.ty # "float64" /\ y.ty # "float64" THEN ZeroDivisionError
  ELSE IF x.ty = "int" /\ y.ty = "int"
  THEN (IF x.m = << >> THEN Zero("float", SignXor(x, y))
        ELSE DivRound("float", SignXor(x, y), x.m, y.m, 0))
  ELSE FloatDiv(AsFloat(x), AsFloat(y), ResTy(x, y))

\* (-1)^sa * ma + (-1)^sb * mb as sign and magnitude, c = CmpN(ma, mb)
SignedSum(sa, ma, sb, mb, c) ==
  IF sa = sb THEN [s |-> sa, m |-> AddN(ma, mb)]
  ELSE IF c = 0 THEN [s |-> 0, m |-> << >>]
  ELSE IF c > 0 THEN [s |-> sa, m |-> SubN(ma, mb)]
  ELSE [s |-> sb, m |-> SubN(mb, ma)]

\* the same sum of magnitudes already aligned
AlignedSum(sa, ma, sb, mb) == SignedSum(sa, ma, sb, mb, CmpN(ma, mb))

\* the exact sum of two finite values (-1)^s * m * 2^e, as sign and
\* magnitude at exponent e0, the smaller of the two
DyadicSum(a, b, e0) ==
  AlignedSum(a.s, ShiftL(a.m, a.e - e0), b.s, ShiftL(b.m, b.e - e0))

\* the nonzero float x is below a quarter of the last place of the nonzero
\* float y: adding it to y rounds back to y
Negligible(x, y) ==
  x.m # << >> /\ y.m # << >> /\ x.e + BitLen(x.m) + 2 <= y.e

RoundSum(ty, d, e0) == RoundToFloat(ty, d.s, d.m, e0, FALSE)

\* a + b on floats
FloatAdd(a, b, ty) ==
  IF IsNaN(a) \/ IsNaN(b) THEN NaN(ty)
  ELSE IF a.cls = "inf"
  THEN (IF b.cls = "inf" /\ a.s # b.s THEN NaN(ty) ELSE Inf(ty, a.s))
  ELSE IF b.cls = "inf" THEN Inf(ty, b.s)
  ELSE IF Negligible(b, a) THEN SetTy(a, ty)
  ELSE IF Negligible(a, b) THEN SetTy(b, ty)
  ELSE RoundSum(ty, DyadicSum(a, b, MinOf(a.e, b.e)), MinOf(a.e, b.e))

IntOfSum(d) == Val("int", "fin", d.s, d.m, 0)

\* x + y
PyAdd(x, y) ==
  IF IsExc(x) THEN x
  ELSE IF IsExc(y) THEN y
  ELSE IF x.ty = "int" /\ y.ty = "int" THEN IntOfSum(AlignedSum(x.s, x.m, y.s, y.m))
  ELSE FloatAdd(AsFloat(x), AsFloat(y), ResTy(x, y))

SqrtRound(r, e) == RoundToFloat("float64", 0, r.q, e, r.r # << >>)

\* the square root of the positive float a, its significand shifted left
\* by sh bits so that the exponent is even and the root has spare bits
SqrtShifted(a, sh) == SqrtRound(ISqrtN(ShiftL(a.m, sh)), (a.e - sh) \div 2)

SqrtShift(a, sh0) == IF (a.e - sh0) % 2 = 0 THEN sh0 ELSE sh0 + 1

\* a slip: the root taken as math.sqrt takes it, which raises ValueError
\* for a negative argument
FloatSqrt_math(a) ==
  IF IsNaN(a) THEN NaN("float64")
  ELSE IF IsZero(a) THEN Zero("float64", a.s)
  ELSE IF a.s = 1 THEN Val("ValueError", "exc", 0, << >>, 0)
  ELSE IF a.cls = "inf" THEN Inf("float64", 0)
  ELSE SqrtShifted(a, SqrtShift(a, MaxOf(0, 2 * Precision + 3 - BitLen(a.m))))

\* np.sqrt on a float: nan for a negative argument (with a RuntimeWarning,
\* which is no exception)
FloatSqrt(a) ==
  IF IsNaN(a) THEN NaN("float64")
  ELSE IF IsZero(a) THEN Zero("float64", a.s)
  ELSE IF a.s = 1 THEN NaN("float64")
  ELSE IF a.cls = "inf" THEN Inf("float64", 0)
  ELSE SqrtShifted(a, SqrtShift(a, MaxOf(0, 2 * Precision + 3 - BitLen(a.m))))

\* np.sqrt(x): a numpy float64
NpSqrt(x) == IF IsExc(x) THEN x ELSE FloatSqrt(AsFloat(x))

(***************************************************************************)
(* The two functions of the notebook.                                      *)
(***************************************************************************)
\* a slip: the factor 2 left out, np.sqrt((annual_demand*order_cost)/holding_cost)
Compute_EOQ_no_factor(a, o, h) == NpSqrt(PyTrueDiv(PyMul(a, o), h))

\* a slip: the parenthesis closed early, np.sqrt(2*annual_demand*order_cost)/holding_cost
Compute_EOQ_root_first(a, o, h) == PyTrueDiv(NpSqrt(PyMul(PyMul(PyInt(2), a), o)), h)

\* EOQ = np.sqrt((2*annual_demand*order_cost)/holding_cost)
Compute_EOQ(a, o, h) == NpSqrt(PyTrueDiv(PyMul(PyMul(PyInt(2), a), o), h))

\* a slip: the EOQ worked out again from the other arguments, the one passed
\* in ignored
Compute_EOQ_TAC_recomputed(Q, a, o, h, u) ==
  PyAdd(PyAdd(PyMul(PyTrueDiv(a, NpSqrt(PyTrueDiv(PyMul(PyMul(PyInt(2), a), o), h))), o),
              PyMul(PyTrueDiv(NpSqrt(PyTrueDiv(PyMul(PyMul(PyInt(2), a), o), h)), PyInt(2)), h)),
        PyMul(u, a))

\* a slip: the purchase cost unit_cost*annual_demand left out
Compute_EOQ_TAC_no_purchase(Q, a, o, h, u) ==
  PyAdd(PyMul(PyTrueDiv(a, Q), o), PyMul(PyTrueDiv(Q, PyInt(2)), h))

\* TAC = (annual_demand/EOQ)*order_cost + (EOQ/2)*holding_cost + unit_cost*annual_demand
Compute_EOQ_TAC(Q, a, o, h, u) ==
  PyAdd(PyAdd(PyMul(PyTrueDiv(a, Q), o), PyMul(PyTrueDiv(Q, PyInt(2)), h)), PyMul(u, a))

(***************************************************************************)
(* Exact rational arithmetic, to state what a formula is worth as a real   *)
(* number: (-1)^s * n / d with d > 0, not reduced.                         *)
(***************************************************************************)
Rat(s, n, d) == [s |-> IF n = << >> THEN 0 ELSE s, n |-> n, d |-> d]

\* the exact value of a finite number
RatOf(v) ==
  IF v.e >= 0 THEN Rat(v.s, ShiftL(v.m, v.e), <<1>>)
  ELSE Rat(v.s, v.m, ShiftL(<<1>>, -v.e))

RatInt(n) == RatOf(PyInt(n))

RatMul(x, y) == Rat((x.s + y.s) % 2, MulN(x.n, y.n), MulN(x.d, y.d))

\* x / y for y # 0
RatDiv(x, y) == Rat((x.s + y.s) % 2, MulN(x.n, y.d), MulN(x.d, y.n))

RatOfSum(sm, d) == Rat(sm.s, sm.m, d)

RatAdd(x, y) ==
  RatOfSum(AlignedSum(x.s, MulN(x.n, y.d), y.s, MulN(y.n, x.d)), MulN(x.d, y.d))

RatNeg(x) == Rat(1 - x.s, x.n, x.d)
RatAbs(x) == Rat(0, x.n, x.d)
RatSub(x, y) == RatAdd(x, RatNeg(y))

\* x <= y and x = y
RatLeq(x, y) == RatSub(y, x).s = 0
RatEq(x, y) == RatSub(y, x).n = << >>
RatLess(x, y) == RatLeq(x, y) /\ ~RatEq(x, y)

\* 2^(-k)
RatPow2Neg(k) == Rat(0, <<1>>, ShiftL(<<1>>, k))

\* the decimal number with digits ds, the last `scale` after the point
RatDec(ds, scale) == Rat(0, FromDigits(ds), Pow10N(scale))

(***************************************************************************)
(* The notebook session.  The names of the pipeline cell are the state;    *)
(* an argument set is drawn at Init in place of the cell's four literals.  *)
(***************************************************************************)
MaxDemand == 2
MaxOrder == 1
MaxHolding == 3
MaxQuarter == 2
MaxK == 2
MaxEOQArg == 2
MaxQuantity == 2

\* a name that holds no value yet
Unbound == Val("unbound", "unbound", 0, << >>, 0)

Ints(lo, hi) == {PyInt(n) : n \in lo..hi}

\* arguments passed by the cells: ints in the pipeline cell, numpy float64
\* multiples of 0.25 as holding cost in the sweep cell
Demands      == Ints(-1, MaxDemand) \cup {PyInt(1000)}
OrderCosts   == Ints(-1, MaxOrder) \cup {PyInt(25)}
HoldingCosts ==
  Ints(-1, MaxHolding) \cup {PyFloat(PyInt(0))}
    \cup {PyMul(PyFloatLit(<<0, 2, 5>>, 2), NpFloat64(PyInt(n))) : n \in 0..MaxQuarter}
UnitCosts    == {PyInt(0), PyInt(8)}

\* EOQ arguments of a direct call of Compute_EOQ_TAC, the docstring's
\* literal among them
EOQArgs ==
  Ints(-1, MaxEOQArg) \cup {PyFloat(PyInt(0)),
                             PyFloatLit(<<1,5,8,1,1,3,8,8,3,0,0,8,4,1,8,9,8>>, 14)}

VARIABLES annual_demand, order_cost, holding_cost, unit_cost,
          EOQ, TAC, EOQ_arg, raised, scaled, pc,
          Q_alt, TAC_alt, EOQ_list, unit_cost_list, sweep_i

vars == <<annual_demand, order_cost, holding_cost, unit_cost,
          EOQ, TAC, EOQ_arg, raised, scaled, pc,
          Q_alt, TAC_alt, EOQ_list, unit_cost_list, sweep_i>>

\* another order quantity costed next to the EOQ, and the cost it gives
alt == <<Q_alt, TAC_alt>>

\* the lists of the sweep cell and the position of its loop
lists == <<EOQ_list, unit_cost_list, sweep_i>>

inputs == <<annual_demand, order_cost, holding_cost, unit_cost>>

NoScaled == [k |-> 0, same |-> Unbound, inverse |-> Unbound,
             quad |-> Unbound, double |-> Unbound]

Init ==
  /\ annual_demand \in Demands
  /\ order_cost \in OrderCosts
  /\ holding_cost \in HoldingCosts
  /\ unit_cost \in UnitCosts
  /\ EOQ = Unbound
  /\ TAC = Unbound
  /\ EOQ_arg = Unbound
  /\ raised = "none"
  /\ scaled = NoScaled
  /\ Q_alt = Unbound
  /\ TAC_alt = Unbound
  /\ EOQ_list = << >>
  /\ unit_cost_list = << >>
  /\ sweep_i = 0
  /\ pc = "start"

\* a call returns r to the caller, who binds it, or it raises and the cell
\* stops with the name left as it was
Bind_EOQ(r) ==
  IF IsExc(r)
  THEN raised' = r.ty /\ pc' = "raised_EOQ" /\ UNCHANGED EOQ
  ELSE EOQ' = r /\ pc' = "have_EOQ" /\ UNCHANGED raised

Bind_TAC(r, done, failed) ==
  IF IsExc(r)
  THEN raised' = r.ty /\ pc' = failed /\ UNCHANGED TAC
  ELSE TAC' = r /\ pc' = done /\ UNCHANGED raised

\* EOQ = Compute_EOQ(annual_demand, order_cost, holding_cost)
Call_Compute_EOQ ==
  /\ pc = "start"
  /\ Bind_EOQ(Compute_EOQ(annual_demand, order_cost, holding_cost))
  /\ UNCHANGED <<inputs, TAC, EOQ_arg, scaled, alt, lists>>

\* TAC = Compute_EOQ_TAC(EOQ, annual_demand, order_cost, holding_cost, unit_cost)
Call_Compute_EOQ_TAC ==
  /\ pc = "have_EOQ"
  /\ EOQ_arg' = EOQ
  /\ Bind_TAC(Compute_EOQ_TAC(EOQ, annual_demand, order_cost, holding_cost, unit_cost),
              "have_TAC", "raised_TAC")
  /\ UNCHANGED <<inputs, EOQ, scaled, alt, lists>>

\* Compute_EOQ_TAC(q, ...) on an EOQ the caller supplies, as in the docstring
\* example Compute_EOQ_TAC(158.11388300841898, 1000, 25, 2, 8)
Call_Compute_EOQ_TAC_direct ==
  /\ pc = "start"
  /\ \E q \in EOQArgs :
       /\ EOQ_arg' = q
       /\ Bind_TAC(Compute_EOQ_TAC(q, annual_demand, order_cost, holding_cost, unit_cost),
                   "have_direct", "raised_direct")
  /\ UNCHANGED <<inputs, EOQ, scaled, alt, lists>>

\* Compute_EOQ on demand and holding cost scaled by kk = k * k: both
\* multiplied, and demand multiplied while holding cost is divided
ScaledCalls(k, kk) ==
  [k       |-> k,
   same    |-> Compute_EOQ(PyMul(kk, annual_demand), order_cost, PyMul(kk, holding_cost)),
   inverse |-> Compute_EOQ(PyMul(kk, annual_demand), order_cost, PyTrueDiv(holding_cost, kk)),
   quad    |-> Unbound,
   double  |-> Unbound]

\* Compute_EOQ called again on scaled arguments, next to the EOQ in hand
Call_Compute_EOQ_scaled ==
  /\ pc = "have_EOQ"
  /\ \E k \in 1..MaxK : scaled' = ScaledCalls(k, PyMul(PyInt(k), PyInt(k)))
  /\ pc' = "scaled"
  /\ UNCHANGED <<inputs, EOQ, TAC, EOQ_arg, raised, alt, lists>>

\* Compute_EOQ on holding cost doubled, with demand quadrupled and doubled
DoubledCalls ==
  [k       |-> 0,
   same    |-> Unbound,
   inverse |-> Unbound,
   quad    |-> Compute_EOQ(PyMul(PyInt(4), annual_demand), order_cost,
                           PyMul(PyInt(2), holding_cost)),
   double  |-> Compute_EOQ(PyMul(PyInt(2), annual_demand), order_cost,
                           PyMul(PyInt(2), holding_cost))]

Call_Compute_EOQ_doubled ==
  /\ pc = "have_EOQ"
  /\ scaled' = DoubledCalls
  /\ pc' = "doubled"
  /\ UNCHANGED <<inputs, EOQ, TAC, EOQ_arg, raised, alt, lists>>

\* the floats next above and next below the positive float v
NextUpM(v, m1) ==
  IF BitLen(m1) > Precision THEN Pack(v.ty, 0, ShiftR(m1, 1), v.e + 1)
  ELSE [v EXCEPT !.m = m1]

NextUp(v) == NextUpM(v, AddN(v.m, <<1>>))

NextDownM(v, m1) ==
  IF BitLen(m1) < Precision /\ v.e > EMin
  THEN [v EXCEPT !.m = SubN(ShiftL(v.m, 1), <<1>>), !.e = v.e - 1]
  ELSE [v EXCEPT !.m = m1]

NextDown(v) == NextDownM(v, SubN(v.m, <<1>>))

\* order quantities to cost next to the EOQ q: small ints and the floats
\* on either side of q
OtherQuantities(q) ==
  Ints(1, MaxQuantity)
    \cup (IF q.cls = "fin" /\ q.s = 0 /\ q.m # << >> THEN {NextDown(q), NextUp(q)} ELSE {})

Bind_TAC_alt(r) ==
  IF IsExc(r)
  THEN raised' = r.ty /\ pc' = "raised_alt" /\ UNCHANGED TAC_alt
  ELSE TAC_alt' = r /\ pc' = "have_alt" /\ UNCHANGED raised

\* a slip: Compute_EOQ_TAC declaring its TAC global, so that the call
\* also rebinds the caller's TAC
Call_Compute_EOQ_TAC_alt_global ==
  /\ pc = "have_TAC"
  /\ \E q \in OtherQuantities(EOQ) :
       /\ Q_alt' = q
       /\ Bind_TAC_alt(Compute_EOQ_TAC(q, annual_demand, order_cost, holding_cost, unit_cost))
       /\ TAC' = Compute_EOQ_TAC(q, annual_demand, order_cost, holding_cost, unit_cost)
  /\ UNCHANGED <<inputs, EOQ, EOQ_arg, scaled, lists>>

\* Compute_EOQ_TAC called again on another order quantity, next to the TAC
\* in hand: the TAC assigned inside the function is its own local name
Call_Compute_EOQ_TAC_alt ==
  /\ pc = "have_TAC"
  /\ \E q \in OtherQuantities(EOQ) :
       /\ Q_alt' = q
       /\ Bind_TAC_alt(Compute_EOQ_TAC(q, annual_demand, order_cost, holding_cost, unit_cost))
  /\ UNCHANGED <<inputs, EOQ, TAC, EOQ_arg, scaled, lists>>

Next ==
  \/ Call_Compute_EOQ
  \/ Call_Compute_EOQ_TAC
  \/ Call_Compute_EOQ_TAC_direct
  \/ Call_Compute_EOQ_scaled
  \/ Call_Compute_EOQ_doubled
  \/ Call_Compute_EOQ_TAC_alt

Spec == Init /\ [][Next]_vars

(***************************************************************************)
(* The sweep cell: EOQ as a function of the unit cost, the holding cost    *)
(* being a quarter of it.                                                  *)
(***************************************************************************)
\* -x and x - y
PyNeg(x) == IF IsExc(x) \/ x.cls = "nan" THEN x ELSE [x EXCEPT !.s = 1 - x.s]
PySub(x, y) == PyAdd(x, PyNeg(y))

\* element i (from 0) of np.linspace(start, stop, num) given delta =
\* stop - start and step = delta / (num - 1): i * step + start, or
\* (i / (num - 1)) * delta + start when the step is 0, and stop itself at
\* the end
LinspaceElem(start, stop, num, i, delta, step) ==
  IF i = num - 1 THEN stop
  ELSE IF IsZero(step)
  THEN PyAdd(PyMul(PyTrueDiv(NpFloat64(PyInt(i)), NpFloat64(PyInt(num - 1))), delta), start)
  ELSE PyAdd(PyMul(NpFloat64(PyInt(i)), step), start)

LinspaceStep(start, stop, num, i, delta) ==
  LinspaceElem(start, stop, num, i, delta, PyTrueDiv(delta, NpFloat64(PyInt(num - 1))))

Linspace(start, stop, num, i) == LinspaceStep(start, stop, num, i, PySub(stop, start))

\* the number of unit costs of the sweep
SweepNum == 100

\* a slip: the sweep started at a unit cost of 0
SweepUnitCost_from_zero(i) ==
  Linspace(NpFloat64(PyInt(0)), NpFloat64(PyInt(25)), SweepNum, i)

\* np.linspace(0.25, 25, 100)[i]
SweepUnitCost(i) ==
  Linspace(NpFloat64(PyFloatLit(<<0, 2, 5>>, 2)), NpFloat64(PyInt(25)), SweepNum, i)

\* the session before the cell runs: fresh, or as the pipeline cell left it
SweepInit ==
  /\ \/ /\ annual_demand = Unbound /\ order_cost = Unbound
        /\ holding_cost = Unbound /\ unit_cost = Unbound
        /\ EOQ = Unbound /\ TAC = Unbound
     \/ /\ annual_demand = PyInt(1000) /\ order_cost = PyInt(25)
        /\ holding_cost = PyInt(2) /\ unit_cost = PyInt(8)
        /\ EOQ = Compute_EOQ(PyInt(1000), PyInt(25), PyInt(2))
        /\ TAC = Compute_EOQ_TAC(Compute_EOQ(PyInt(1000), PyInt(25), PyInt(2)),
                                 PyInt(1000), PyInt(25), PyInt(2), PyInt(8))
  /\ EOQ_arg = Unbound
  /\ raised = "none"
  /\ scaled = NoScaled
  /\ Q_alt = Unbound
  /\ TAC_alt = Unbound
  /\ EOQ_list = << >>
  /\ unit_cost_list = << >>
  /\ sweep_i = 0
  /\ pc = "sweep_start"

\* annual_demand = 1000; order_cost = 25; EOQ_list = []; unit_cost_list = []
Sweep_setup ==
  /\ pc = "sweep_start"
  /\ annual_demand' = PyInt(1000)
  /\ order_cost' = PyInt(25)
  /\ EOQ_list' = << >>
  /\ unit_cost_list' = << >>
  /\ sweep_i' = 0
  /\ pc' = "for"
  /\ UNCHANGED <<holding_cost, unit_cost, EOQ, TAC, EOQ_arg, raised, scaled, alt>>

\* at the loop head, with elements of the array left, or with none
Sweep_more == pc = "for" /\ sweep_i < SweepNum
Sweep_exhausted == pc = "for" /\ sweep_i >= SweepNum

\* for unit_cost in np.linspace(0.25, 25, 100): the next element
Sweep_for_next ==
  /\ Sweep_more
  /\ unit_cost' = SweepUnitCost(sweep_i)
  /\ sweep_i' = sweep_i + 1
  /\ pc' = "holding"
  /\ UNCHANGED <<annual_demand, order_cost, holding_cost, EOQ, TAC, EOQ_arg, raised,
                 scaled, alt, EOQ_list, unit_cost_list>>

\* the array is exhausted: the loop ends
Sweep_for_end ==
  /\ Sweep_exhausted
  /\ pc' = "sweep_done"
  /\ UNCHANGED <<inputs, EOQ, TAC, EOQ_arg, raised, scaled, alt, lists>>

\* holding_cost = 0.25 * unit_cost
Sweep_holding ==
  /\ pc = "holding"
  /\ holding_cost' = PyMul(PyFloatLit(<<0, 2, 5>>, 2), unit_cost)
  /\ pc' = "append_EOQ"
  /\ UNCHANGED <<annual_demand, order_cost, unit_cost, EOQ, TAC, EOQ_arg, raised,
                 scaled, alt, lists>>

\* the call returns r, which is appended, or it raises and the cell stops
Append_EOQ(r) ==
  IF IsExc(r)
  THEN raised' = r.ty /\ pc' = "sweep_raised" /\ UNCHANGED EOQ_list
  ELSE EOQ_list' = Append(EOQ_list, r) /\ pc' = "append_unit" /\ UNCHANGED raised

\* EOQ_list.append(Compute_EOQ(annual_demand, order_cost, holding_cost))
Sweep_append_EOQ ==
  /\ pc = "append_EOQ"
  /\ Append_EOQ(Compute_EOQ(annual_demand, order_cost, holding_cost))
  /\ UNCHANGED <<inputs, EOQ, TAC, EOQ_arg, scaled, alt, unit_cost_list, sweep_i>>

\* unit_cost_list.append(unit_cost)
Sweep_append_unit ==
  /\ pc = "append_unit"
  /\ unit_cost_list' = Append(unit_cost_list, unit_cost)
  /\ pc' = "for"
  /\ UNCHANGED <<inputs, EOQ, TAC, EOQ_arg, raised, scaled, alt, EOQ_list, sweep_i>>

SweepNext ==
  \/ Sweep_setup
  \/ Sweep_for_next
  \/ Sweep_for_end
  \/ Sweep_holding
  \/ Sweep_append_EOQ
  \/ Sweep_append_unit

\* the places of the cell, and those where a statement is due
SweepPlaces ==
  {"sweep_start", "for", "holding", "append_EOQ", "append_unit", "sweep_done",
   "sweep_raised"}

\* a statement is due: the guard of one of the actions of SweepNext holds
Sweep_due ==
  \/ pc \in {"sweep_start", "holding", "append_EOQ", "append_unit"}
  \/ Sweep_more
  \/ Sweep_exhausted

\* control leaves a statement that is due
Sweep_runs == Sweep_due /\ \E l \in SweepPlaces \ {pc} : pc' = l

\* the interpreter runs the cell on: a statement that is due is run
SweepSpec == SweepInit /\ [][SweepNext]_vars /\ WF_pc(Sweep_runs)

(***************************************************************************)
(* What the session has done, and the inputs a property is about.          *)
(***************************************************************************)
Positive(v) == v.cls = "fin" /\ v.s = 0 /\ v.m # << >>

PositiveInputs ==
  Positive(annual_demand) /\ Positive(order_cost) /\ Positive(holding_cost)

\* Compute_EOQ(annual_demand, order_cost, holding_cost) has been called
EOQ_called ==
  pc \in {"have_EOQ", "raised_EOQ", "have_TAC", "raised_TAC", "scaled", "doubled",
          "have_alt", "raised_alt"}

\* Compute_EOQ_TAC has been called, on EOQ_arg
TAC_called == pc \in {"have_TAC", "raised_TAC", "have_direct", "raised_direct"}

\* |x - y| <= 2^(-k) * mag
RatWithin(x, y, k, mag) == RatLeq(RatAbs(RatSub(x, y)), RatMul(RatPow2Neg(k), mag))

(***************************************************************************)
(* C1                                                                      *)
(***************************************************************************)
\* EOQ * EOQ * holding_cost and 2 * annual_demand * order_cost as exact numbers
EOQ_squared_times_h == RatMul(RatMul(RatOf(EOQ), RatOf(EOQ)), RatOf(holding_cost))
Two_a_o == RatMul(RatMul(RatInt(2), RatOf(annual_demand)), RatOf(order_cost))

\* C1 as stated: for positive inputs the result r of Compute_EOQ is
\* non-negative and r * r * holding_cost is exactly 2 * annual_demand *
\* order_cost.
C1_Square_exact ==
  (EOQ_called /\ PositiveInputs) =>
    /\ IsFinite(EOQ) /\ EOQ.s = 0
    /\ RatEq(EOQ_squared_times_h, Two_a_o)

\* C1 as amended: for positive inputs the result r of Compute_EOQ is a
\* non-negative float and r * r * holding_cost is 2 * annual_demand *
\* order_cost up to the rounding of binary64: they differ by at most
\* 2^-50 times the latter.
C1_Square_rounded ==
  (EOQ_called /\ PositiveInputs) =>
    /\ IsFinite(EOQ) /\ EOQ.s = 0 /\ EOQ.ty = "float64"
    /\ RatWithin(EOQ_squared_times_h, Two_a_o, 50, Two_a_o)

\* a positive-input call whose root is not exact
C1_Witness ==
  EOQ_called /\ PositiveInputs /\ IsFinite(EOQ) /\ ~RatEq(EOQ_squared_times_h, Two_a_o)

(***************************************************************************)
(* C2                                                                      *)
(***************************************************************************)
\* the three terms of the TAC formula as exact numbers, on the EOQ passed in
Ordering_term == RatMul(RatDiv(RatOf(annual_demand), RatOf(EOQ_arg)), RatOf(order_cost))
Holding_term  == RatMul(RatDiv(RatOf(EOQ_arg), RatInt(2)), RatOf(holding_cost))
Purchase_term == RatMul(RatOf(unit_cost), RatOf(annual_demand))
TAC_formula   == RatAdd(RatAdd(Ordering_term, Holding_term), Purchase_term)
TAC_magnitude ==
  RatAdd(RatAdd(RatAbs(Ordering_term), RatAbs(Holding_term)), RatAbs(Purchase_term))

\* the EOQ passed to Compute_EOQ_TAC is a number other than 0
EOQ_arg_nonzero == IsFinite(EOQ_arg) /\ ~IsZero(EOQ_arg)

\* C2 as stated: for EOQ # 0 Compute_EOQ_TAC returns exactly
\* (annual_demand / EOQ) * order_cost + (EOQ / 2) * holding_cost +
\* unit_cost * annual_demand, on the EOQ it is given.
C2_TAC_exact ==
  (TAC_called /\ EOQ_arg_nonzero) =>
    /\ pc \in {"have_TAC", "have_direct"}
    /\ IsFinite(TAC)
    /\ RatEq(RatOf(TAC), TAC_formula)

\* C2 as amended: for EOQ # 0 Compute_EOQ_TAC returns that formula on the
\* EOQ it is given, up to the rounding of binary64: the result differs from
\* the exact value by at most 2^-50 times the sum of the magnitudes of the
\* three terms.
C2_TAC_rounded ==
  (TAC_called /\ EOQ_arg_nonzero) =>
    /\ pc \in {"have_TAC", "have_direct"}
    /\ IsFinite(TAC)
    /\ RatWithin(RatOf(TAC), TAC_formula, 50, TAC_magnitude)

\* a direct call on an EOQ that is not the one the other arguments give,
\* whose result is not exact
C2_Witness ==
  /\ pc = "have_direct" /\ EOQ_arg_nonzero /\ PositiveInputs
  /\ EOQ_arg # Compute_EOQ(annual_demand, order_cost, holding_cost)
  /\ ~RatEq(RatOf(TAC), TAC_formula)

Example_EOQ_inputs ==
  annual_demand = PyInt(1000) /\ order_cost = PyInt(25) /\ holding_cost = PyInt(2)

\* 10^(-k)
RatPow10Neg(k) == Rat(0, <<1>>, Pow10N(k))

\* |x - y| <= 10^(-k)
RatNear(x, y, k) == RatLeq(RatAbs(RatSub(x, y)), RatPow10Neg(k))

\* C6: Compute_EOQ(1000, 25, 2) returns 158.11388300841898 (it is the float
\* that literal denotes, and within 1e-9 of the decimal number), its square
\* is 25000 within 1e-9, and it lies strictly between 158 and 159.
C6_EOQ_example ==
  (EOQ_called /\ Example_EOQ_inputs) =>
    /\ pc # "raised_EOQ"
    /\ EOQ = NpFloat64(PyFloatLit(<<1,5,8,1,1,3,8,8,3,0,0,8,4,1,8,9,8>>, 14))
    /\ RatNear(RatOf(EOQ), RatDec(<<1,5,8,1,1,3,8,8,3,0,0,8,4,1,8,9,8>>, 14), 9)
    /\ RatNear(RatMul(RatOf(EOQ), RatOf(EOQ)), RatInt(25000), 9)
    /\ RatLess(RatInt(158), RatOf(EOQ))
    /\ RatLess(RatOf(EOQ), RatInt(159))

\* the example call has returned
C6_Witness == pc = "have_EOQ" /\ Example_EOQ_inputs /\ IsFinite(EOQ)

(***************************************************************************)
(* C7                                                                      *)
(***************************************************************************)
\* C7: the pipeline on 1000, 25, 2, 8 (Compute_EOQ, then Compute_EOQ_TAC on
\* its result) yields TAC = 8316.227766016838 (the float that literal
\* denotes, and within 1e-6 of the decimal number), which is 8000 plus
\* twice the EOQ within 1e-6.
C7_TAC_example ==
  (pc \in {"have_TAC", "raised_TAC"} /\ Example_EOQ_inputs /\ unit_cost = PyInt(8)) =>
    /\ pc = "have_TAC"
    /\ EOQ_arg = EOQ
    /\ TAC = NpFloat64(PyFloatLit(<<8,3,1,6,2,2,7,7,6,6,0,1,6,8,3,8>>, 12))
    /\ RatNear(RatOf(TAC), RatDec(<<8,3,1,6,2,2,7,7,6,6,0,1,6,8,3,8>>, 12), 6)
    /\ RatNear(RatOf(TAC), RatAdd(RatInt(8000), RatMul(RatInt(2), RatOf(EOQ))), 6)

\* the example pipeline has run to its end
C7_Witness ==
  /\ pc = "have_TAC" /\ Example_EOQ_inputs /\ unit_cost = PyInt(8)
  /\ IsFinite(TAC) /\ EOQ_arg = EOQ

(***************************************************************************)
(* C8                                                                      *)
(***************************************************************************)
\* C8: a call of Compute_EOQ with holding_cost = 0 ends in an error raised
\* to the caller, and no EOQ value is returned.
C8_Zero_holding_raises ==
  (EOQ_called /\ IsZero(holding_cost)) =>
    pc = "raised_EOQ" /\ raised # "none" /\ EOQ = Unbound

(***************************************************************************)
(* C9                                                                      *)
(***************************************************************************)
\* C9: a call of Compute_EOQ_TAC with EOQ = 0 ends in an error raised to the
\* caller, and no TAC value is returned; the EOQ of 0 may come from
\* Compute_EOQ itself.
C9_Zero_EOQ_raises ==
  (TAC_called /\ IsZero(EOQ_arg)) =>
    pc \in {"raised_TAC", "raised_direct"} /\ raised # "none" /\ TAC = Unbound

(***************************************************************************)
(* C10                                                                     *)
(***************************************************************************)
\* holding_cost # 0 and the signs of the three arguments make
\* (2 * annual_demand * order_cost) / holding_cost negative
NegativeRadicand ==
  /\ ~IsZero(annual_demand) /\ ~IsZero(order_cost) /\ ~IsZero(holding_cost)
  /\ (annual_demand.s + order_cost.s + holding_cost.s) % 2 = 1

\* C10: when holding_cost # 0 and the radicand is negative, Compute_EOQ
\* rejects nothing: it raises no error and returns NaN, no valid
\* non-negative EOQ.
C10_Negative_radicand_NaN ==
  (EOQ_called /\ NegativeRadicand) =>
    /\ pc # "raised_EOQ" /\ raised = "none"
    /\ IsNaN(EOQ) /\ EOQ.ty = "float64"

\* a call with a negative holding cost that has returned NaN
C10_Witness ==
  EOQ_called /\ NegativeRadicand /\ holding_cost.s = 1 /\ IsNaN(EOQ)

(***************************************************************************)
(* C11                                                                     *)
(***************************************************************************)
\* the pipeline has run on positive arguments and a unit cost >= 0, and
\* another order quantity Q > 0 has been costed
Alt_costed ==
  /\ pc = "have_alt" /\ PositiveInputs /\ unit_cost.s = 0
  /\ Positive(Q_alt) /\ IsFinite(TAC) /\ IsFinite(TAC_alt)

\* C11 as stated: for positive a, o, h, a unit cost >= 0 and every Q > 0,
\* Compute_EOQ_TAC(Q, ...) >= Compute_EOQ_TAC(Compute_EOQ(a, o, h), ...),
\* with equality only at Q = EOQ.
C11_EOQ_strict_minimum ==
  Alt_costed =>
    /\ RatLeq(RatOf(TAC), RatOf(TAC_alt))
    /\ (RatEq(RatOf(TAC), RatOf(TAC_alt)) => RatEq(RatOf(Q_alt), RatOf(EOQ)))

\* C11 as amended: for positive a, o, h, a unit cost >= 0 and every Q > 0,
\* Compute_EOQ_TAC(Q, ...) >= Compute_EOQ_TAC(Compute_EOQ(a, o, h), ...) up
\* to the rounding of binary64: the cost at Q is never below the cost at
\* the EOQ by more than 2^-50 times the latter.  Equality is not limited
\* to Q = EOQ.
C11_EOQ_minimum_rounded ==
  (pc \in {"have_alt", "raised_alt"} /\ PositiveInputs /\ unit_cost.s = 0) =>
    /\ Alt_costed
    /\ RatLeq(RatSub(RatOf(TAC), RatOf(TAC_alt)), RatMul(RatPow2Neg(50), RatOf(TAC)))

\* an order quantity other than the EOQ that costs the same as the EOQ
C11_Witness ==
  /\ Alt_costed
  /\ ~RatEq(RatOf(Q_alt), RatOf(EOQ))
  /\ RatEq(RatOf(TAC), RatOf(TAC_alt))

(***************************************************************************)
(* C12                                                                     *)
(***************************************************************************)
\* a step leaves the four arguments and an EOQ or TAC computed before as
\* they were
Frame_kept ==
  /\ inputs' = inputs
  /\ (EOQ # Unbound => EOQ' = EOQ)
  /\ (TAC # Unbound => TAC' = TAC)

\* Compute_EOQ called a second time on the same arguments (scaled by 1)
\* returns what the first call returned
Same_call_same_result ==
  (pc' = "scaled" /\ scaled'.k = 1) => (scaled'.same = EOQ /\ EOQ' = EOQ)

Ordering_computed == RatOf(PyMul(PyTrueDiv(annual_demand, EOQ), order_cost))
Holding_computed == RatOf(PyMul(PyTrueDiv(EOQ, PyInt(2)), holding_cost))
EOQ_h_plus_purchase ==
  RatAdd(RatMul(RatOf(EOQ), RatOf(holding_cost)),
         RatMul(RatOf(unit_cost), RatOf(annual_demand)))

\* the pipeline has run to its end on positive arguments
Pipeline_done ==
  /\ pc = "have_TAC" /\ PositiveInputs /\ unit_cost.s = 0
  /\ EOQ_arg = EOQ /\ IsFinite(EOQ) /\ IsFinite(TAC)

\* C15 as stated: on the EOQ that Compute_EOQ returns for the same positive
\* arguments the ordering-cost term equals the holding-cost term, and
\* TAC = EOQ*holding_cost + unit_cost*annual_demand.
C15_Terms_equal ==
  Pipeline_done =>
    /\ RatEq(Ordering_computed, Holding_computed)
    /\ RatEq(RatOf(TAC), EOQ_h_plus_purchase)

\* C15 as amended: on the EOQ that Compute_EOQ returns for the same
\* positive arguments the ordering-cost term equals the holding-cost term
\* up to the rounding of binary64 (they differ by at most 2^-50 times the
\* holding-cost term), and TAC is EOQ*holding_cost + unit_cost*annual_demand
\* within 2^-50 times that value.
C15_Terms_equal_rounded ==
  (pc \in {"have_TAC", "raised_TAC"} /\ PositiveInputs /\ unit_cost.s = 0) =>
    /\ Pipeline_done
    /\ RatWithin(Ordering_computed, Holding_computed, 50, Holding_computed)
    /\ RatWithin(RatOf(TAC), EOQ_h_plus_purchase, 50, EOQ_h_plus_purchase)

\* a pipeline run whose two terms differ in the last place
C15_Witness == Pipeline_done /\ RatLess(Ordering_computed, Holding_computed)

(***************************************************************************)
(* C14                                                                     *)
(***************************************************************************)
\* x < y for two numbers
ValueLess(x, y) == IsFinite(x) /\ IsFinite(y) /\ RatLess(RatOf(x), RatOf(y))

\* the loop is between two iterations, or over
Sweep_between == pc \in {"for", "sweep_done"}

\* lines 212 to 216 have run
Sweep_begun == pc # "sweep_start"

\* recorded EOQ n is the EOQ of recorded unit cost n: its square times a
\* quarter of the unit cost is 2 * 1000 * 25, up to the rounding of binary64
Sweep_paired(n) ==
  RatWithin(RatMul(RatMul(RatOf(EOQ_list[n]), RatOf(EOQ_list[n])),
                   RatMul(RatDec(<<2, 5>>, 2), RatOf(unit_cost_list[n]))),
            RatInt(50000), 50, RatInt(50000))

\* what holds at every point of the sweep
Sweep_safe ==
  /\ raised = "none" /\ pc # "sweep_raised"
  /\ sweep_i <= SweepNum
  /\ Sweep_begun => annual_demand = PyInt(1000) /\ order_cost = PyInt(25)
  /\ Sweep_between =>
       /\ Len(EOQ_list) = sweep_i /\ Len(unit_cost_list) = sweep_i
       /\ sweep_i >= 1 =>
            /\ Positive(EOQ_list[sweep_i])
            /\ unit_cost_list[sweep_i] = unit_cost
            /\ Sweep_paired(sweep_i)
       /\ sweep_i >= 2 =>
            /\ ValueLess(EOQ_list[sweep_i], EOQ_list[sweep_i - 1])
            /\ ValueLess(unit_cost_list[sweep_i - 1], unit_cost_list[sweep_i])
  /\ pc = "append_EOQ" =>
       /\ Positive(holding_cost)
       /\ RatEq(RatOf(holding_cost), RatMul(RatDec(<<2, 5>>, 2), RatOf(unit_cost)))
       /\ ValueLess(PyInt(0), unit_cost) /\ ~ValueLess(PyInt(25), unit_cost)
       /\ ~ValueLess(unit_cost, PyFloatLit(<<0, 2, 5>>, 2))
  /\ pc = "sweep_done" =>
       /\ sweep_i = SweepNum
       /\ RatEq(RatOf(unit_cost_list[1]), RatDec(<<2, 5>>, 2))
       /\ unit_cost_list[SweepNum] = NpFloat64(PyInt(25))
       /\ \A n \in 1..(SweepNum - 1) : ValueLess(EOQ_list[n + 1], EOQ_list[n])

\* the loop is over, after 100 iterations
Sweep_over ==
  pc = "sweep_done" /\ Len(EOQ_list) = SweepNum /\ Len(unit_cost_list) = SweepNum

====
